---- MODULE Spec2Model ----
(***************************************************************************)
(* Model of the location-estimation service (UserInfoService.js) and of    *)
(* the request handlers that drive it (UserInfoController.js).             *)
(*                                                                         *)
(* JavaScript values are represented as follows.                           *)
(*   - a string-valued field is a TLA+ string; an absent field is the      *)
(*     string Undef, the null value the string Null;                       *)
(*   - a number-valued field is a record [kind, n] built by Num, NaNV,     *)
(*     NullV or UndefV; coordinates are whole degrees unless a section     *)
(*     states a finer unit;                                                *)
(*   - "no result" (a null returned by a provider client) is NoResult.     *)
(* Floating-point rounding is not modelled: arithmetic is exact.           *)
(***************************************************************************)
EXTENDS Integers, Sequences, FiniteSets, TLC

VARIABLES
    endpoint,       \* the controller handler serving the request
    ip,             \* extractRealIP(req)
    pc,             \* position of the handler
    runs,           \* number of extractPreciseGeolocation invocations so far
    results,        \* the Promise.allSettled array of the current invocation
    order,          \* providers of the current invocation, in completion order
    ncalls,         \* per provider: lookups issued while handling the request
    elapsed,        \* ms since the current invocation issued its lookups
    geolocation,    \* userData.geolocation (collectUserInfo)
    savedRecord,    \* savedRecord of the handler
    responses,      \* the responses the handler has sent on res
    ipGeolocation,  \* ipGeolocation (performStealthLocationAnalysis)
    rec,            \* scoring: the record given to scoreGeolocationResult
    score,          \* scoring: <<>>, then <<the value returned>>
    ests,           \* blending: the list given to calculateStealthLocation
    stealth,        \* blending: the value returned
    signals,        \* stealth analysis: the inputs of the five estimators
    analysis,       \* stealth analysis: <<>>, then <<the value returned>>
    track,          \* movement: previousLocation and currentLocation
    movement,       \* movement: <<>>, then <<the value returned>>
    summary,        \* movement: <<>>, then <<the summary of the liveTrack response>>
    requests,       \* fingerprint: the requests to fingerprint
    fingerprint     \* fingerprint: <<>>, then <<the value returned>>

reqVars   == <<endpoint, ip, pc, runs, results, order, ncalls, elapsed,
               geolocation, ipGeolocation, savedRecord, responses>>
replyVars == <<savedRecord, responses>>
scoreVars == <<rec, score>>
blendVars == <<ests, stealth>>
analysisVars == <<signals, analysis>>
moveVars  == <<track, movement, summary>>
printVars == <<requests, fingerprint>>
vars      == <<endpoint, ip, pc, runs, results, order, ncalls, elapsed,
               geolocation, ipGeolocation, rec, score, ests, stealth,
               signals, analysis, track, movement, summary, requests, fingerprint,
               savedRecord, responses>>

(***************************************************************************)
(* JavaScript values                                                       *)
(***************************************************************************)
Undef == "undefined"
Null  == "null"

Num(n) == [kind |-> "num", n |-> n]
NaNV   == [kind |-> "nan", n |-> 0]
NullV  == [kind |-> "null", n |-> 0]
UndefV == [kind |-> "undefined", n |-> 0]

\* truthiness of a string-valued field
Truthy(s) == s \notin {Undef, Null, ""}

\* truthiness of a number-valued field: 0, NaN, null and undefined are falsy
TruthyNum(x) == x.kind = "num" /\ x.n # 0

NoResult == [source |-> Null]

StartsWith(s, prefix) ==
    Len(s) >= Len(prefix) /\ SubSeq(s, 1, Len(prefix)) = prefix

Digits == <<"0", "1", "2", "3", "4", "5", "6", "7", "8", "9">>

IsDigit(c) == \E i \in 1..10 : Digits[i] = c

DigitVal(c) == (CHOOSE i \in 1..10 : Digits[i] = c) - 1

RECURSIVE DigitsPrefix(_, _, _)
\* value of the longest run of digits of s starting at position i, given the
\* value acc of the digits already read
DigitsPrefix(s, i, acc) ==
    IF i <= Len(s) /\ IsDigit(SubSeq(s, i, i))
    THEN DigitsPrefix(s, i + 1, 10 * acc + DigitVal(SubSeq(s, i, i)))
    ELSE acc

\* parseFloat on the string form of a value, for whole numbers: an optional
\* sign and the leading digits; NaN when no digit follows
ParseFloat(s) ==
    LET neg   == Len(s) >= 1 /\ SubSeq(s, 1, 1) = "-"
        first == IF Len(s) >= 1 /\ SubSeq(s, 1, 1) \in {"-", "+"} THEN 2 ELSE 1
    IN  IF first <= Len(s) /\ IsDigit(SubSeq(s, first, first))
        THEN Num((IF neg THEN -1 ELSE 1) * DigitsPrefix(s, first, 0))
        ELSE NaNV

RECURSIVE SplitFrom(_, _, _, _)
\* s.split(sep) for a one-character sep: the pieces of s from position i on,
\* cur being the piece read so far
SplitFrom(s, sep, i, cur) ==
    IF i > Len(s) THEN <<cur>>
    ELSE IF SubSeq(s, i, i) = sep
         THEN <<cur>> \o SplitFrom(s, sep, i + 1, "")
         ELSE SplitFrom(s, sep, i + 1, cur \o SubSeq(s, i, i))

Split(s, sep) == SplitFrom(s, sep, 1, "")

(***************************************************************************)
(* Result Scorer                                                           *)
(***************************************************************************)
scoreGeolocationResult(result) ==
    (IF Truthy(result.country) /\ result.country # "Unknown" THEN 1 ELSE 0)
  + (IF Truthy(result.region) /\ result.region # "Unknown" THEN 1 ELSE 0)
  + (IF Truthy(result.city) /\ result.city # "Unknown" THEN 1 ELSE 0)
  + (IF TruthyNum(result.latitude) /\ TruthyNum(result.longitude) THEN 3 ELSE 0)
  + (IF Truthy(result.timezone) /\ result.timezone # "Unknown" THEN 1 ELSE 0)
  + (IF Truthy(result.isp) /\ result.isp # "Unknown" THEN 1 ELSE 0)

(***************************************************************************)
(* Provider clients                                                        *)
(***************************************************************************)
\* registration order in Promise.allSettled([...])
Ipapi     == 1
Ipinfo    == 2
FastGeoip == 3
GeoipLite == 4

Providers    == 1..4
NetProviders == {Ipapi, Ipinfo}

TimeoutMs == 3000

Record(country, region, city, lat, lon, tz, isp, org, source) ==
    [country |-> country, region |-> region, city |-> city,
     latitude |-> lat, longitude |-> lon, timezone |-> tz,
     isp |-> isp, organization |-> org, source |-> source]

LocalRecord ==
    Record("Local", "Local", "Local", NullV, NullV, "Local",
           "Local Network", "Local Network", "local")

UnknownRecord ==
    Record("Unknown", "Unknown", "Unknown", NullV, NullV, "Unknown",
           "Unknown", "Unknown", "none")

Fulfilled(v) == [status |-> "fulfilled", value |-> v]
Rejected     == [status |-> "rejected", value |-> NoResult]
Pending      == [status |-> "pending", value |-> NoResult]

\* A response is [kind, body]: kind "body" carries the parsed response body
\* (an object whose absent fields are Undef), kind "nullbody" is a body that
\* parses to null, kind "fail" is a request that failed (connection error,
\* non-2xx status).
IpapiBody(error, country, region, city, lat, lon, tz, org) ==
    [kind |-> "body", error |-> error, country_name |-> country,
     region |-> region, city |-> city, latitude |-> lat, longitude |-> lon,
     timezone |-> tz, org |-> org]

IpinfoBody(country, region, city, loc, tz, org) ==
    [kind |-> "body", country |-> country, region |-> region, city |-> city,
     loc |-> loc, timezone |-> tz, org |-> org]

\* the geo object of fast-geoip and geoip-lite; ll is <<>> when absent
GeoBody(country, region, city, ll, tz, area) ==
    [kind |-> "body", country |-> country, region |-> region, city |-> city,
     ll |-> ll, timezone |-> tz, area |-> area]

FailedResponse == [kind |-> "fail"]
NullBody       == [kind |-> "nullbody"]

\* the responses the model draws from, per provider
IpapiResponses ==
    { IpapiBody(FALSE, "United States", "New York", "New York City", "40", "-74",
                "America/New_York", "Comcast Cable"),
      IpapiBody(FALSE, "Uganda", "Central Region", "Kampala", "0", "32",
                "Africa/Kampala", "MTN Uganda"),
      IpapiBody(FALSE, Undef, Undef, Undef, Undef, Undef, Undef, Undef),
      IpapiBody(TRUE, Undef, Undef, Undef, Undef, Undef, Undef, Undef),
      NullBody, FailedResponse }

IpinfoResponses ==
    { IpinfoBody("US", "New York", "New York City", "41,-73",
                 "America/New_York", "AS7922 Comcast"),
      IpinfoBody("US", Undef, Undef, "41", Undef, Undef),
      IpinfoBody("US", "New York", "New York City", Undef,
                 "America/New_York", "AS7922 Comcast"),
      NullBody, FailedResponse }

FastGeoipResponses ==
    { GeoBody("US", "NY", "New York", <<42, -72>>, "America/New_York", "1000"),
      GeoBody("US", "", "", <<>>, Undef, Undef),
      NullBody, FailedResponse }

GeoipLiteResponses ==
    { GeoBody("US", "NY", "New York", <<43, -71>>, "America/New_York", Undef),
      NullBody, FailedResponse }

\* the ipapi.co client without its try/catch
getLocationFromIpapi_NoCatch(resp) ==
    IF resp.kind # "body" THEN Rejected
    ELSE IF resp.error THEN Rejected
    ELSE Fulfilled(Record(resp.country_name, resp.region, resp.city,
                          ParseFloat(resp.latitude), ParseFloat(resp.longitude),
                          resp.timezone, resp.org, resp.org, "ipapi.co"))

getLocationFromIpapi(resp) ==
    IF resp.kind # "body" THEN Fulfilled(NoResult)         \* caught: return null
    ELSE IF resp.error THEN Fulfilled(NoResult)             \* thrown and caught
    ELSE Fulfilled(Record(resp.country_name, resp.region, resp.city,
                          ParseFloat(resp.latitude), ParseFloat(resp.longitude),
                          resp.timezone, resp.org, resp.org, "ipapi.co"))

getLocationFromIpinfo(resp) ==
    IF resp.kind # "body" THEN Fulfilled(NoResult)
    ELSE IF ~Truthy(resp.loc) THEN Fulfilled(NoResult)
    ELSE LET parts == Split(resp.loc, ",")
             lat   == ParseFloat(parts[1])
             lon   == IF Len(parts) >= 2 THEN ParseFloat(parts[2]) ELSE UndefV
         IN  Fulfilled(Record(resp.country, resp.region, resp.city, lat, lon,
                              resp.timezone, resp.org, resp.org, "ipinfo.io"))

getLocationFromFastGeoip(resp) ==
    IF resp.kind # "body" THEN Fulfilled(NoResult)
    ELSE Fulfilled(Record(resp.country, resp.region, resp.city,
                          IF resp.ll # <<>> THEN Num(resp.ll[1]) ELSE NullV,
                          IF resp.ll # <<>> THEN Num(resp.ll[2]) ELSE NullV,
                          resp.timezone, resp.area, resp.area, "fast-geoip"))

getLocationFromGeoipLite(resp) ==
    IF resp.kind # "body" THEN Fulfilled(NoResult)
    ELSE Fulfilled(Record(resp.country, resp.region, resp.city,
                          IF resp.ll # <<>> THEN Num(resp.ll[1]) ELSE NullV,
                          IF resp.ll # <<>> THEN Num(resp.ll[2]) ELSE NullV,
                          resp.timezone, "Unknown", "Unknown", "geoip-lite"))

\* the axios timeout of a network client: the request is rejected, the
\* client's catch returns null
ClientTimeout(p) == Fulfilled(NoResult)

(***************************************************************************)
(* Provider Aggregator                                                     *)
(***************************************************************************)
\* the address test without its "10." case
IsLocalAddress_No10(addr) ==
    \/ addr = "127.0.0.1"
    \/ addr = "::1"
    \/ StartsWith(addr, "192.168.")

IsLocalAddress(addr) ==
    \/ addr = "127.0.0.1"
    \/ addr = "::1"
    \/ StartsWith(addr, "192.168.")
    \/ StartsWith(addr, "10.")

RECURSIVE BestLoop(_, _, _, _)
\* the selection loop over the settled array res, from index i on
BestLoop(res, i, bestResult, bestScore) ==
    IF i > Len(res) THEN bestResult
    ELSE IF res[i].status = "fulfilled" /\ res[i].value # NoResult
              /\ scoreGeolocationResult(res[i].value) > bestScore
         THEN BestLoop(res, i + 1, res[i].value, scoreGeolocationResult(res[i].value))
         ELSE BestLoop(res, i + 1, bestResult, bestScore)

\* the selection run over the results in the order the calls completed
SelectBest_CompletionOrder(res) ==
    LET byCompletion == [i \in 1..Len(order) |-> res[order[i]]]
        bestResult   == BestLoop(byCompletion, 1, NoResult, 0)
    IN  IF bestResult # NoResult THEN bestResult ELSE UnknownRecord

\* the selection with a record of score 0 accepted
SelectBest_AcceptsZero(res) ==
    LET bestResult == BestLoop(res, 1, NoResult, -1)
    IN  IF bestResult # NoResult THEN bestResult ELSE UnknownRecord

\* the selection without its fallback to the Unknown record
SelectBest_NoFallback(res) == BestLoop(res, 1, NoResult, 0)

SelectBest(res) ==
    LET bestResult == BestLoop(res, 1, NoResult, 0)
    IN  IF bestResult # NoResult THEN bestResult ELSE UnknownRecord

(***************************************************************************)
(* Request handlers                                                        *)
(***************************************************************************)
TickMs == 1000

Endpoints == {"getUserInfo", "liveTrack", "stealthTrack"}

\* the client addresses the model draws from
Addresses ==
    {"127.0.0.1", "::1", "10.0.0.7", "192.168.1.5",
     "8.8.8.8", "100.64.0.1", "192.169.0.1"}

NotStarted == [p \in Providers |-> [status |-> "idle", value |-> NoResult]]

NoRecord == [source |-> "unset"]

\* let savedRecord = null
NoSavedRecord == [id |-> Null]

\* the record a successful save resolves with
SavedRecord == [id |-> "record"]

\* the outcomes of the save call (UserInfo.saveToDatabase, userInfo.save)
SaveOutcomes == {"resolves", "throws"}

\* the response with the database section always reporting success
SuccessResponse_AlwaysSaved(data, saved) ==
    [status |-> 200, success |-> TRUE, data |-> data, database |-> [saved |-> TRUE]]

\* the body passed to res.status(200).json: success, the collected data and
\* the database section (saved: !!savedRecord)
SuccessResponse(data, saved) ==
    [status |-> 200, success |-> TRUE, data |-> data,
     database |-> [saved |-> saved # NoSavedRecord]]

Idle == [kind |-> "idle"]

ReqInit ==
    /\ endpoint \in Endpoints
    /\ ip \in Addresses
    /\ pc = "collectUserInfo"
    /\ runs = 0
    /\ results = NotStarted
    /\ order = <<>>
    /\ ncalls = [p \in Providers |-> 0]
    /\ elapsed = 0
    /\ geolocation = NoRecord
    /\ ipGeolocation = NoRecord
    /\ savedRecord = NoSavedRecord
    /\ responses = <<>>

ReqOff ==
    /\ endpoint = "none"
    /\ ip = ""
    /\ pc = "off"
    /\ runs = 0
    /\ results = NotStarted
    /\ order = <<>>
    /\ ncalls = [p \in Providers |-> 0]
    /\ elapsed = 0
    /\ geolocation = NoRecord
    /\ ipGeolocation = NoRecord
    /\ savedRecord = NoSavedRecord
    /\ responses = <<>>

ScoreOff == rec = NoRecord /\ score = <<>>

BlendOff == ests = <<>> /\ stealth = Idle

AnalysisOff == signals = <<>> /\ analysis = <<>>

MoveOff == track = <<>> /\ movement = <<>> /\ summary = <<>>

PrintOff == requests = <<>> /\ fingerprint = <<>>

\* extractPreciseGeolocation up to its await, for a non-local address: the
\* four clients are called in registration order; the three async ones are
\* pending at their first await, geoip-lite has already returned
IssueLookups(lite) ==
    /\ results' = [p \in Providers |->
                      IF p = GeoipLite THEN getLocationFromGeoipLite(lite)
                      ELSE Pending]
    /\ order' = <<GeoipLite>>
    /\ ncalls' = [p \in Providers |-> ncalls[p] + 1]
    /\ elapsed' = 0

AllSettled ==
    \A p \in Providers : results[p].status \in {"fulfilled", "rejected"}

\* collectUserInfo: calls extractPreciseGeolocation(ip)
CollectUserInfo ==
    /\ pc = "collectUserInfo"
    /\ runs' = runs + 1
    /\ IF IsLocalAddress(ip)
       THEN /\ geolocation' = LocalRecord
            /\ pc' = IF endpoint = "stealthTrack"
                     THEN "performStealthLocationAnalysis" ELSE "save"
            /\ UNCHANGED <<results, order, ncalls, elapsed>>
       ELSE /\ \E lite \in GeoipLiteResponses : IssueLookups(lite)
            /\ pc' = "awaitGeolocation"
            /\ UNCHANGED geolocation
    /\ UNCHANGED <<endpoint, ip, ipGeolocation, scoreVars, blendVars,
                   analysisVars, moveVars, printVars, replyVars>>

\* performStealthLocationAnalysis: calls extractPreciseGeolocation(ip)
PerformStealthLocationAnalysis ==
    /\ pc = "performStealthLocationAnalysis"
    /\ runs' = runs + 1
    /\ IF IsLocalAddress(ip)
       THEN /\ ipGeolocation' = LocalRecord
            /\ pc' = "save"
            /\ UNCHANGED <<results, order, ncalls, elapsed>>
       ELSE /\ \E lite \in GeoipLiteResponses : IssueLookups(lite)
            /\ pc' = "awaitIpGeolocation"
            /\ UNCHANGED ipGeolocation
    /\ UNCHANGED <<endpoint, ip, geolocation, scoreVars, blendVars,
                   analysisVars, moveVars, printVars, replyVars>>

Awaiting == pc \in {"awaitGeolocation", "awaitIpGeolocation"}

Settle(p, outcome) ==
    /\ results' = [results EXCEPT ![p] = outcome]
    /\ order' = Append(order, p)
    /\ UNCHANGED <<endpoint, ip, pc, runs, ncalls, elapsed, geolocation,
                   ipGeolocation, scoreVars, blendVars,
                   analysisVars, moveVars, printVars, replyVars>>

\* a response (or a failure) of ipapi.co arrives before the timeout
IpapiResponds ==
    /\ Awaiting /\ results[Ipapi].status = "pending"
    /\ elapsed < TimeoutMs
    /\ \E resp \in IpapiResponses : Settle(Ipapi, getLocationFromIpapi(resp))

\* a response (or a failure) of ipinfo.io arrives before the timeout
IpinfoResponds ==
    /\ Awaiting /\ results[Ipinfo].status = "pending"
    /\ elapsed < TimeoutMs
    /\ \E resp \in IpinfoResponses : Settle(Ipinfo, getLocationFromIpinfo(resp))

\* the axios timer of a network client fires
NetworkTimeout ==
    /\ Awaiting
    /\ elapsed >= TimeoutMs
    /\ \E p \in NetProviders :
          /\ results[p].status = "pending"
          /\ Settle(p, ClientTimeout(p))

\* fastGeoip.lookup settles; nothing in the client bounds the time it takes
FastGeoipSettles ==
    /\ Awaiting /\ results[FastGeoip].status = "pending"
    /\ \E resp \in FastGeoipResponses :
          Settle(FastGeoip, getLocationFromFastGeoip(resp))

\* time passes; it cannot pass a timer that is due
Tick ==
    /\ Awaiting
    /\ elapsed <= TimeoutMs
    /\ \A p \in NetProviders : results[p].status = "pending" => elapsed < TimeoutMs
    /\ elapsed' = elapsed + TickMs
    /\ UNCHANGED <<endpoint, ip, pc, runs, results, order, ncalls, geolocation,
                   ipGeolocation, scoreVars, blendVars,
                   analysisVars, moveVars, printVars, replyVars>>

\* extractPreciseGeolocation resumes after Promise.allSettled
ResumeGeolocation ==
    /\ pc = "awaitGeolocation"
    /\ AllSettled
    /\ geolocation' = SelectBest(results)
    /\ pc' = IF endpoint = "stealthTrack"
             THEN "performStealthLocationAnalysis" ELSE "save"
    /\ UNCHANGED <<endpoint, ip, runs, results, order, ncalls, elapsed,
                   ipGeolocation, scoreVars, blendVars,
                   analysisVars, moveVars, printVars, replyVars>>

ResumeIpGeolocation ==
    /\ pc = "awaitIpGeolocation"
    /\ AllSettled
    /\ ipGeolocation' = SelectBest(results)
    /\ pc' = "save"
    /\ UNCHANGED <<endpoint, ip, runs, results, order, ncalls, elapsed,
                   geolocation, scoreVars, blendVars,
                   analysisVars, moveVars, printVars, replyVars>>

\* the save call inside its own try / catch: a record when it resolves,
\* savedRecord left null when it throws
Save ==
    /\ pc = "save"
    /\ \E outcome \in SaveOutcomes :
          savedRecord' = IF outcome = "throws" THEN savedRecord ELSE SavedRecord
    /\ pc' = "respond"
    /\ UNCHANGED <<endpoint, ip, runs, results, order, ncalls, elapsed,
                   geolocation, ipGeolocation, responses, scoreVars, blendVars,
                   analysisVars, moveVars, printVars>>

\* res.status(200).json(response)
Respond ==
    /\ pc = "respond"
    /\ responses' = Append(responses, SuccessResponse(geolocation, savedRecord))
    /\ pc' = "done"
    /\ UNCHANGED <<endpoint, ip, runs, results, order, ncalls, elapsed,
                   geolocation, ipGeolocation, savedRecord, scoreVars, blendVars,
                   analysisVars, moveVars, printVars>>

Init == ReqInit /\ ScoreOff /\ BlendOff /\ AnalysisOff /\ MoveOff /\ PrintOff

Next ==
    \/ CollectUserInfo
    \/ PerformStealthLocationAnalysis
    \/ IpapiResponds
    \/ IpinfoResponds
    \/ NetworkTimeout
    \/ FastGeoipSettles
    \/ Tick
    \/ ResumeGeolocation
    \/ ResumeIpGeolocation
    \/ Save
    \/ Respond

Spec == Init /\ [][Next]_vars

(***************************************************************************)
(* Scoring alone: scoreGeolocationResult applied to one record             *)
(***************************************************************************)
MaxCoord == 1

CoordValues == {NullV, UndefV, NaNV} \cup {Num(n) : n \in -MaxCoord..MaxCoord}

FieldValues(known) == {Undef, "", "Unknown", known}

ScoreInputs ==
    { Record(c, r, ci, la, lo, tz, isp, isp, "input") :
        c \in FieldValues("Uganda"), r \in FieldValues("Central Region"),
        ci \in FieldValues("Kampala"), la \in CoordValues, lo \in CoordValues,
        tz \in FieldValues("Africa/Kampala"), isp \in FieldValues("MTN Uganda") }

ScoreInit ==
    /\ rec \in ScoreInputs
    /\ score = <<>>
    /\ ReqOff /\ BlendOff /\ AnalysisOff /\ MoveOff /\ PrintOff

ScoreRecord ==
    /\ rec # NoRecord
    /\ score = <<>>
    /\ score' = <<scoreGeolocationResult(rec)>>
    /\ UNCHANGED <<rec, reqVars, blendVars, analysisVars, moveVars, printVars>>

SpecScore == ScoreInit /\ [][ScoreRecord]_vars

(***************************************************************************)
(* Stealth Location Blender                                                *)
(*                                                                         *)
(* A number computed by the blender is an exact fraction Q(num, den) with  *)
(* den > 0, or NaNQ (0/0), or AbsentQ for a field the result lacks.  The   *)
(* weights confidence/100 are kept in hundredths.                          *)
(***************************************************************************)
Q(num, den) == [kind |-> "num", num |-> num, den |-> den]
NaNQ        == [kind |-> "nan", num |-> 0, den |-> 1]
AbsentQ     == [kind |-> "undefined", num |-> 0, den |-> 1]

\* Math.min(q, cap): NaN when q is NaN
MinQ(q, cap) ==
    IF q.kind = "nan" THEN NaNQ
    ELSE IF q.num <= cap * q.den THEN q ELSE Q(cap, 1)

\* a number-valued field of a location, as the blender's result carries it
AsQ(x) ==
    IF x.kind = "num" THEN Q(x.n, 1)
    ELSE IF x.kind = "nan" THEN NaNQ ELSE AbsentQ

Estimate(lat, lon, city, region, confidence) ==
    [location |-> [latitude |-> lat, longitude |-> lon,
                   city |-> city, region |-> region],
     confidence |-> confidence]

NoEstimate == [confidence |-> Null]

RECURSIVE BlendLoop(_, _, _)
\* the loop of calculateStealthLocation from index i on; acc carries 100 *
\* totalWeight, 100 * weightedLat, 100 * weightedLon, totalConfidence and
\* bestEstimation
BlendLoop(list, i, acc) ==
    IF i > Len(list) THEN acc
    ELSE LET e   == list[i]
             has == TruthyNum(e.location.latitude) /\ TruthyNum(e.location.longitude)
         IN  BlendLoop(list, i + 1,
               [totalWeight     |-> acc.totalWeight + e.confidence,
                totalConfidence |-> acc.totalConfidence + e.confidence,
                weightedLat     |-> IF has
                                    THEN acc.weightedLat + e.location.latitude.n * e.confidence
                                    ELSE acc.weightedLat,
                weightedLon     |-> IF has
                                    THEN acc.weightedLon + e.location.longitude.n * e.confidence
                                    ELSE acc.weightedLon,
                bestEstimation  |-> IF has /\ (acc.bestEstimation = NoEstimate
                                               \/ e.confidence > acc.bestEstimation.confidence)
                                    THEN e ELSE acc.bestEstimation])

\* calculateStealthLocation with the confidences summed and not averaged
calculateStealthLocation_Undivided(locationEstimations) ==
    LET acc == BlendLoop(locationEstimations, 1,
                 [totalWeight |-> 0, totalConfidence |-> 0, weightedLat |-> 0,
                  weightedLon |-> 0, bestEstimation |-> NoEstimate])
        averageConfidence ==
            IF Len(locationEstimations) = 0 THEN NaNQ
            ELSE Q(acc.totalConfidence, 1)
    IN  IF acc.totalWeight > 0 /\ acc.weightedLat # 0 /\ acc.weightedLon # 0
        THEN [latitude   |-> Q(acc.weightedLat, acc.totalWeight),
              longitude  |-> Q(acc.weightedLon, acc.totalWeight),
              city       |-> Undef,
              region     |-> Undef,
              confidence |-> MinQ(averageConfidence, 90),
              source     |-> "Multi-algorithm stealth estimation"]
        ELSE IF acc.bestEstimation # NoEstimate
        THEN [latitude   |-> AsQ(acc.bestEstimation.location.latitude),
              longitude  |-> AsQ(acc.bestEstimation.location.longitude),
              city       |-> acc.bestEstimation.location.city,
              region     |-> acc.bestEstimation.location.region,
              confidence |-> MinQ(averageConfidence, 75),
              source     |-> "Best available estimation"]
        ELSE [latitude   |-> AbsentQ,
              longitude  |-> AbsentQ,
              city       |-> Undef,
              region     |-> "General area only",
              confidence |-> MinQ(averageConfidence, 50),
              source     |-> "Insufficient coordinate data"]

calculateStealthLocation(locationEstimations) ==
    LET acc == BlendLoop(locationEstimations, 1,
                 [totalWeight |-> 0, totalConfidence |-> 0, weightedLat |-> 0,
                  weightedLon |-> 0, bestEstimation |-> NoEstimate])
        averageConfidence ==
            IF Len(locationEstimations) = 0 THEN NaNQ
            ELSE Q(acc.totalConfidence, Len(locationEstimations))
    IN  IF acc.totalWeight > 0 /\ acc.weightedLat # 0 /\ acc.weightedLon # 0
        THEN [latitude   |-> Q(acc.weightedLat, acc.totalWeight),
              longitude  |-> Q(acc.weightedLon, acc.totalWeight),
              city       |-> Undef,
              region     |-> Undef,
              confidence |-> MinQ(averageConfidence, 90),
              source     |-> "Multi-algorithm stealth estimation"]
        ELSE IF acc.bestEstimation # NoEstimate
        THEN [latitude   |-> AsQ(acc.bestEstimation.location.latitude),
              longitude  |-> AsQ(acc.bestEstimation.location.longitude),
              city       |-> acc.bestEstimation.location.city,
              region     |-> acc.bestEstimation.location.region,
              confidence |-> MinQ(averageConfidence, 75),
              source     |-> "Best available estimation"]
        ELSE [latitude   |-> AbsentQ,
              longitude  |-> AbsentQ,
              city       |-> Undef,
              region     |-> "General area only",
              confidence |-> MinQ(averageConfidence, 50),
              source     |-> "Insufficient coordinate data"]

MaxEst == 2

\* the estimates the model draws from
CoordPairs ==
    { <<UndefV, UndefV>>, <<Num(40), Num(-74)>>, <<Num(-40), Num(74)>>,
      <<Num(0), Num(10)>>, <<Num(40), UndefV>> }

ConfValues == {0, 40, 100}

EstimateInputs ==
    { Estimate(c[1], c[2], city, Undef, conf) :
        c \in CoordPairs, city \in {Undef, "New York City"}, conf \in ConfValues }

EstimateLists == UNION { [1..n -> EstimateInputs] : n \in 0..MaxEst }

BlendInit ==
    /\ ests \in EstimateLists
    /\ stealth = Idle
    /\ ReqOff /\ ScoreOff /\ AnalysisOff /\ MoveOff /\ PrintOff

CalculateStealthLocation ==
    /\ stealth = Idle
    /\ stealth' = calculateStealthLocation(ests)
    /\ UNCHANGED <<ests, reqVars, scoreVars, analysisVars, moveVars, printVars>>

SpecBlend == BlendInit /\ [][CalculateStealthLocation]_vars

(***************************************************************************)
(* Stealth location analysis: the five analysers, the five estimators,     *)
(* the blender and the accuracy band (performStealthLocationAnalysis       *)
(* after its await).  In this section coordinates are in units of 1e-4     *)
(* degree.  Fields of an analysis that no estimator reads (screenPatterns, *)
(* browserPatterns, rttPatterns, typePatterns, routingAnalysis and, but    *)
(* for the timezone analysis, the summed `confidence`) are left out.       *)
(***************************************************************************)
\* String.prototype.includes
Includes(s, sub) ==
    \E i \in 1..(Len(s) - Len(sub) + 1) : SubSeq(s, i, i + Len(sub) - 1) = sub

\* what an analyser returns when it found nothing: no region, no location
NoPattern(confidence) ==
    [region |-> Null, location |-> <<>>, confidence |-> confidence]

UpperCase == "ABCDEFGHIJKLMNOPQRSTUVWXYZ"
LowerCase == "abcdefghijklmnopqrstuvwxyz"

RECURSIVE ToLowerCase(_)
\* String.prototype.toLowerCase, for the letters A to Z
ToLowerCase(s) ==
    IF s = "" THEN ""
    ELSE LET c    == SubSeq(s, 1, 1)
             hits == { i \in 1..Len(UpperCase) : SubSeq(UpperCase, i, i) = c }
             low  == IF hits = {} THEN c
                     ELSE LET i == CHOOSE j \in hits : TRUE IN SubSeq(LowerCase, i, i)
         IN  low \o ToLowerCase(SubSeq(s, 2, Len(s)))

ispRegionMap ==
    << [pattern |-> "Comcast", region |-> "United States", confidence |-> 20],
       [pattern |-> "Verizon", region |-> "United States", confidence |-> 20],
       [pattern |-> "AT&T", region |-> "United States", confidence |-> 20],
       [pattern |-> "BT Group", region |-> "United Kingdom", confidence |-> 20],
       [pattern |-> "Deutsche Telekom", region |-> "Germany", confidence |-> 20],
       [pattern |-> "Orange", region |-> "France", confidence |-> 15],
       [pattern |-> "China Telecom", region |-> "China", confidence |-> 20],
       [pattern |-> "NTT", region |-> "Japan", confidence |-> 20],
       [pattern |-> "Telstra", region |-> "Australia", confidence |-> 20] >>

\* analyzeISPInfrastructure(isp, organization): the first entry of
\* ispRegionMap whose lower-cased pattern occurs in the lower-cased isp
analyzeISPInfrastructure(isp) ==
    LET ispName == ToLowerCase(IF Truthy(isp) THEN isp ELSE "")
        hits    == { i \in 1..Len(ispRegionMap) :
                       Includes(ispName, ToLowerCase(ispRegionMap[i].pattern)) }
    IN  IF hits = {} THEN NoPattern(5)
        ELSE LET i == CHOOSE j \in hits : \A k \in hits : j <= k
             IN  [region |-> ispRegionMap[i].region, location |-> <<>>,
                  confidence |-> ispRegionMap[i].confidence]

\* analyzeNetworkInfrastructure: extractNetworkInfo returns an object with
\* no `isp` field, so networkInfo.isp is undefined
analyzeNetworkInfrastructure == [ispPatterns |-> analyzeISPInfrastructure(Undef)]

\* analyzeHardwarePatterns: a confidence and never a region
analyzeHardwarePatterns(frontendData) ==
    LET hc == frontendData.hardwareConcurrency
        dm == frontendData.deviceMemory
        a  == IF TruthyNum(hc) THEN (IF hc.n >= 8 THEN 3 ELSE IF hc.n >= 4 THEN 2 ELSE 0) ELSE 0
        b  == IF TruthyNum(dm) THEN (IF dm.n >= 8 THEN 3 ELSE IF dm.n >= 4 THEN 2 ELSE 0) ELSE 0
    IN  NoPattern(IF a + b <= 8 THEN a + b ELSE 8)

analyzeDeviceCharacteristics(frontendData) ==
    [hardwarePatterns |-> analyzeHardwarePatterns(frontendData)]

timezoneCoordinates ==
    << [tz |-> "America/New_York", latitude |-> 407128, longitude |-> -740060, confidence |-> 25],
       [tz |-> "America/Los_Angeles", latitude |-> 340522, longitude |-> -1182437, confidence |-> 25],
       [tz |-> "America/Chicago", latitude |-> 418781, longitude |-> -876298, confidence |-> 20],
       [tz |-> "Europe/London", latitude |-> 515074, longitude |-> -1278, confidence |-> 25],
       [tz |-> "Europe/Paris", latitude |-> 488566, longitude |-> 23522, confidence |-> 25],
       [tz |-> "Europe/Berlin", latitude |-> 525200, longitude |-> 134050, confidence |-> 25],
       [tz |-> "Asia/Tokyo", latitude |-> 356762, longitude |-> 1396503, confidence |-> 25],
       [tz |-> "Asia/Shanghai", latitude |-> 312304, longitude |-> 1214737, confidence |-> 20],
       [tz |-> "Asia/Kolkata", latitude |-> 225726, longitude |-> 883639, confidence |-> 20] >>

\* mapTimezoneToCoordinates(timezone): direct match, then the first entry
\* whose city part occurs in timezone, then a bare confidence
mapTimezoneToCoordinates(timezone) ==
    LET n       == Len(timezoneCoordinates)
        direct  == { i \in 1..n : timezoneCoordinates[i].tz = timezone }
        partial == { i \in 1..n :
                       Includes(timezone, Split(timezoneCoordinates[i].tz, "/")[2]) }
        Loc(i, c) == [latitude  |-> Num(timezoneCoordinates[i].latitude),
                      longitude |-> Num(timezoneCoordinates[i].longitude),
                      confidence |-> c]
    IN  IF direct # {}
        THEN LET i == CHOOSE j \in direct : TRUE
             IN  [region |-> Null,
                  location |-> <<Loc(i, timezoneCoordinates[i].confidence)>>,
                  confidence |-> timezoneCoordinates[i].confidence]
        ELSE IF partial # {}
        THEN LET i == CHOOSE j \in partial : \A k \in partial : j <= k
             IN  [region |-> Null,
                  location |-> <<Loc(i, timezoneCoordinates[i].confidence - 5)>>,
                  confidence |-> timezoneCoordinates[i].confidence - 5]
        ELSE NoPattern(5)

\* an analysis without the field the estimator looks at
NoAnalysis == <<>>

correlations ==
    << [tzRegion |-> "America/", langs |-> {"en-US", "en", "es", "fr-CA"}],
       [tzRegion |-> "Europe/",
        langs |-> {"en-GB", "de", "fr", "it", "es", "nl", "sv", "no", "da"}],
       [tzRegion |-> "Asia/", langs |-> {"ja", "zh", "ko", "hi", "th", "vi"}] >>

\* correlateTimezoneLanguage(timezone, language, languages): 10 if, for the
\* first region of correlations that occurs in timezone, the part before
\* the first "-" of some declared language is in the region's list
correlateTimezoneLanguage(timezone, languages) ==
    LET hits == { i \in 1..Len(correlations) : Includes(timezone, correlations[i].tzRegion) }
    IN  IF hits = {} THEN [confidence |-> 0]
        ELSE LET i == CHOOSE j \in hits : \A k \in hits : j <= k
             IN  IF \E n \in 1..Len(languages) :
                       Split(languages[n], "-")[1] \in correlations[i].langs
                 THEN [confidence |-> 10]
                 ELSE [confidence |-> 0]

\* analyzeTimezonePatterns: <<the analysis>>, or nothing without a timezone
analyzeTimezonePatterns(frontendData) ==
    IF ~Truthy(frontendData.timezone) THEN NoAnalysis
    ELSE LET timezoneLocation    == mapTimezoneToCoordinates(frontendData.timezone)
             languageCorrelation == correlateTimezoneLanguage(frontendData.timezone,
                                                              frontendData.languages)
         IN  <<[timezoneLocation    |-> timezoneLocation,
                languageCorrelation |-> languageCorrelation,
                confidence |-> timezoneLocation.confidence + languageCorrelation.confidence]>>

\* analyzeConnectionSpeedPatterns(connection)
analyzeConnectionSpeedPatterns(downlink) ==
    IF TruthyNum(downlink) /\ downlink.n > 100
    THEN [region |-> "High-speed infrastructure region", location |-> <<>>, confidence |-> 5]
    ELSE IF TruthyNum(downlink) /\ downlink.n > 25
    THEN [region |-> "Good infrastructure region", location |-> <<>>, confidence |-> 3]
    ELSE NoPattern(0)

\* analyzeConnectionPatterns: <<speedPatterns>>, or nothing without a connection
analyzeConnectionPatterns(frontendData) ==
    IF frontendData.connection = <<>> THEN NoAnalysis
    ELSE <<analyzeConnectionSpeedPatterns(frontendData.connection[1].downlink)>>

SignalEstimate(algorithm, lat, lon, city, region, confidence) ==
    [algorithm |-> algorithm,
     location |-> [latitude |-> lat, longitude |-> lon, city |-> city, region |-> region],
     confidence |-> confidence]

\* Math.min over whole numbers
Min(a, b) == IF a <= b THEN a ELSE b

\* estimateFromIPGeolocation with the city-only adjustment subtracted
estimateFromIPGeolocation_CityPenalty(geo) ==
    IF TruthyNum(geo.latitude) /\ TruthyNum(geo.longitude)
    THEN SignalEstimate("IP Geolocation", geo.latitude, geo.longitude,
                        geo.city, geo.region, Min(60 + 20, 85))
    ELSE IF Truthy(geo.city)
    THEN SignalEstimate("IP Geolocation", UndefV, UndefV, geo.city, geo.region,
                        Min(60 - 10, 85))
    ELSE SignalEstimate("IP Geolocation", UndefV, UndefV, Undef, Undef, Min(60, 85))

estimateFromIPGeolocation(geo) ==
    IF TruthyNum(geo.latitude) /\ TruthyNum(geo.longitude)
    THEN SignalEstimate("IP Geolocation", geo.latitude, geo.longitude,
                        geo.city, geo.region, Min(60 + 20, 85))
    ELSE IF Truthy(geo.city)
    THEN SignalEstimate("IP Geolocation", UndefV, UndefV, geo.city, geo.region,
                        Min(60 + 10, 85))
    ELSE SignalEstimate("IP Geolocation", UndefV, UndefV, Undef, Undef, Min(60, 85))

estimateFromNetworkInfrastructure(networkAnalysis) ==
    LET p == networkAnalysis.ispPatterns
        confidence == IF Truthy(p.region)
                      THEN 30 + (IF p.confidence # 0 THEN p.confidence ELSE 15)
                      ELSE 30
    IN  [algorithm |-> "Network Infrastructure",
         location |-> [latitude |-> UndefV, longitude |-> UndefV,
                       city |-> Undef, region |-> Undef,
                       estimatedRegion |-> IF Truthy(p.region) THEN p.region ELSE Undef],
         confidence |-> Min(confidence, 50)]

estimateFromDeviceCharacteristics(deviceAnalysis) ==
    LET confidence == IF Truthy(deviceAnalysis.hardwarePatterns.region)
                      THEN 15 + 10 ELSE 15
    IN  SignalEstimate("Device Characteristics", UndefV, UndefV, Undef, Undef,
                       Min(confidence, 30))

estimateFromTimezonePatterns(timezoneAnalysis) ==
    IF timezoneAnalysis = NoAnalysis
    THEN SignalEstimate("Timezone Analysis", UndefV, UndefV, Undef, Undef, Min(40, 65))
    ELSE LET t == timezoneAnalysis[1].timezoneLocation
             confidence == 40 + (IF t.confidence # 0 THEN t.confidence ELSE 20)
         IN  IF t.location = <<>>
             THEN SignalEstimate("Timezone Analysis", UndefV, UndefV, Undef, Undef,
                                 Min(confidence, 65))
             ELSE SignalEstimate("Timezone Analysis", t.location[1].latitude,
                                 t.location[1].longitude, Undef, Undef,
                                 Min(confidence, 65))

estimateFromConnectionPatterns(connectionAnalysis) ==
    LET confidence == IF connectionAnalysis # NoAnalysis
                         /\ Truthy(connectionAnalysis[1].region)
                      THEN 20 + 10 ELSE 20
    IN  SignalEstimate("Connection Analysis", UndefV, UndefV, Undef, Undef,
                       Min(confidence, 35))

\* estimateLocationAccuracy with inclusive thresholds
estimateLocationAccuracy_Inclusive(confidence) ==
    LET AtLeast(t) == confidence.kind = "num" /\ confidence.num >= t * confidence.den
    IN  IF AtLeast(80) THEN "100m - 2km"
        ELSE IF AtLeast(60) THEN "1km - 10km"
        ELSE IF AtLeast(40) THEN "5km - 50km"
        ELSE IF AtLeast(20) THEN "20km - 200km"
        ELSE "Regional level only"

\* estimateLocationAccuracy(confidence); every comparison with NaN is false
estimateLocationAccuracy(confidence) ==
    LET Above(t) == confidence.kind = "num" /\ confidence.num > t * confidence.den
    IN  IF Above(80) THEN "100m - 2km"
        ELSE IF Above(60) THEN "1km - 10km"
        ELSE IF Above(40) THEN "5km - 50km"
        ELSE IF Above(20) THEN "20km - 200km"
        ELSE "Regional level only"

\* performStealthLocationAnalysis once ipGeolocation is known
performStealthLocationAnalysis(geo, frontendData) ==
    LET locationEstimations ==
            << estimateFromIPGeolocation(geo),
               estimateFromNetworkInfrastructure(analyzeNetworkInfrastructure),
               estimateFromDeviceCharacteristics(analyzeDeviceCharacteristics(frontendData)),
               estimateFromTimezonePatterns(analyzeTimezonePatterns(frontendData)),
               estimateFromConnectionPatterns(analyzeConnectionPatterns(frontendData)) >>
        stealthLocation == calculateStealthLocation(locationEstimations)
    IN  [stealthLocation     |-> stealthLocation,
         locationEstimations |-> locationEstimations,
         confidence          |-> stealthLocation.confidence,
         accuracy            |-> estimateLocationAccuracy(stealthLocation.confidence),
         algorithms          |-> Len(locationEstimations),
         source              |-> "stealth-analysis"]

\* the records extractPreciseGeolocation hands over
GeoInputs ==
    { LocalRecord, UnknownRecord,
      Record("United States", "New York", "New York City", Num(407000), Num(-740000),
             "America/New_York", "AS15169 Google LLC", "AS15169 Google LLC", "ipapi.co"),
      Record("United States", "Pennsylvania", "Philadelphia", Num(399500), Num(-751600),
             "America/New_York", "AS7922 COMCAST-7922", "Comcast Cable Communications, LLC",
             "ipinfo.io"),
      Record("Uganda", Undef, "Kampala", NaNV, UndefV, Undef, Undef, Undef, "ipinfo.io"),
      Record("Gabon", Undef, Undef, Num(0), Num(117000), Undef, Undef, Undef, "fast-geoip") }

TimezoneInputs ==
    { Undef, "America/New_York", "America/Chicago", "Europe/London", "Chicago",
      "US/New_York", "Africa/Kampala" }

ConnectionInputs ==
    { <<>> } \cup { <<[downlink |-> d]>> : d \in {UndefV, Num(10), Num(50), Num(150)} }

HardwareInputs == {UndefV, Num(2), Num(8)}

\* frontendData.languages; <<>> when it is absent or empty
LanguagesInputs == { <<>>, <<"en-US">>, <<"fr", "en-GB">> }

FrontendInputs ==
    [timezone : TimezoneInputs, connection : ConnectionInputs,
     hardwareConcurrency : HardwareInputs, deviceMemory : HardwareInputs,
     languages : LanguagesInputs]

AnalysisInit ==
    /\ signals \in { <<[geo |-> g, frontendData |-> f]>> : g \in GeoInputs, f \in FrontendInputs }
    /\ analysis = <<>>
    /\ ReqOff /\ ScoreOff /\ BlendOff /\ MoveOff /\ PrintOff

PerformAnalysis ==
    /\ signals # <<>>
    /\ analysis = <<>>
    /\ analysis' = <<performStealthLocationAnalysis(signals[1].geo, signals[1].frontendData)>>
    /\ UNCHANGED <<signals, reqVars, scoreVars, blendVars, moveVars, printVars>>

SpecAnalysis == AnalysisInit /\ [][PerformAnalysis]_vars

(***************************************************************************)
(* Movement analysis (analyzeMovement and its helpers).                    *)
(*                                                                         *)
(* In this section coordinates are in units of 1e-6 degree and timestamps  *)
(* in milliseconds.  A computed number is an exact fraction Q(num, den)    *)
(* or NaNQ.  The trigonometric formulas are evaluated at the points of     *)
(* Places only: HaversineMm[i][j] is the value of the haversine formula    *)
(* of calculateDistance from Places[i] to Places[j] in millimetres, and    *)
(* AzimuthE4[i][j] the value of atan2(y, x) of calculateBearing in units   *)
(* of 1e-4 degree, both as IEEE double arithmetic gives them, rounded to   *)
(* the unit.  The last point of Places has a longitude above 180: it is    *)
(* the fourth point with 360 added to its longitude.                       *)
(***************************************************************************)
Places ==
    <<
       << 40000000, -74000000 >>,
       << 40000036, -74000000 >>,
       << 40000093, -74000000 >>,
       << 40004500, -74000030 >>,
       << 39998000, -73997000 >>,
       << 40004500, 285999970 >>
    >>

HaversineMm ==
    <<
       << 0, 4003, 10341, 500384, 338763, 500384 >>,
       << 4003, 0, 6338, 496381, 341404, 496381 >>,
       << 10341, 6338, 0, 490043, 345639, 490043 >>,
       << 500384, 496381, 490043, 0, 767466, 0 >>,
       << 338763, 341404, 345639, 767466, 0, 767466 >>,
       << 500384, 496381, 490043, 0, 767466, 0 >>
    >>

AzimuthE4 ==
    <<
       << 0, 0, 0, -2926, 1310307, -2926 >>,
       << 1800000, 0, 0, -2949, 1315375, -2949 >>,
       << 1800000, 1800000, 0, -2988, 1323240, -2988 >>,
       << 1797074, 1797050, 1797012, 0, 1603480, -900000 >>,
       << -489673, -484605, -476741, -196501, 0, -196501 >>,
       << 1797074, 1797050, 1797012, 900000, 1603480, 0 >>
    >>

\* a value used in arithmetic: undefined and NaN give NaN
IsNumber(x) == x.kind = "num"

PlaceOf(lat, lon) == CHOOSE i \in 1..Len(Places) : Places[i] = <<lat.n, lon.n>>

\* Math.round(num / den) for den > 0: the nearest integer, halves upwards
RoundDiv(num, den) == (num \div den) + (IF 2 * (num % den) >= den THEN 1 ELSE 0)

\* q < n and q > n for a computed number q; every comparison with NaN is false
Below(q, n) == q.kind = "num" /\ q.num < n * q.den
Above(q, n) == q.kind = "num" /\ q.num > n * q.den

\* calculateDistance(lat1, lon1, lat2, lon2), in metres
calculateDistance(lat1, lon1, lat2, lon2) ==
    IF IsNumber(lat1) /\ IsNumber(lon1) /\ IsNumber(lat2) /\ IsNumber(lon2)
    THEN Q(HaversineMm[PlaceOf(lat1, lon1)][PlaceOf(lat2, lon2)], 1000)
    ELSE NaNQ

\* calculateBearing(lat1, lon1, lat2, lon2):
\* Math.round(((theta * 180 / Math.PI) + 360) % 360)
calculateBearing(lat1, lon1, lat2, lon2) ==
    IF IsNumber(lat1) /\ IsNumber(lon1) /\ IsNumber(lat2) /\ IsNumber(lon2)
    THEN LET theta == AzimuthE4[PlaceOf(lat1, lon1)][PlaceOf(lat2, lon2)]
         IN  Q(RoundDiv((theta + 3600000) % 3600000, 10000), 1)
    ELSE NaNQ

\* classifyMovement with the first threshold inclusive
classifyMovement_Inclusive(distance, speedKmh) ==
    IF distance.kind = "num" /\ distance.num <= 5 * distance.den THEN "stationary"
    ELSE IF Below(speedKmh, 5) THEN "walking"
    ELSE IF Below(speedKmh, 25) THEN "cycling"
    ELSE IF Below(speedKmh, 80) THEN "driving"
    ELSE "high-speed"

\* classifyMovement(distance, speedKmh)
classifyMovement(distance, speedKmh) ==
    IF Below(distance, 5) THEN "stationary"
    ELSE IF Below(speedKmh, 5) THEN "walking"
    ELSE IF Below(speedKmh, 25) THEN "cycling"
    ELSE IF Below(speedKmh, 80) THEN "driving"
    ELSE "high-speed"

\* the significance test applied to the reported (rounded) distance
isSignificantMovement_Rounded(distance) ==
    distance.kind = "num" /\ RoundDiv(distance.num, distance.den) > 10

\* isSignificantMovement: distance > 10, on the distance as computed
isSignificantMovement(distance) == Above(distance, 10)

Location(lat, lon, timestamp) ==
    [coordinates |-> [latitude |-> lat, longitude |-> lon], timestamp |-> timestamp]

\* analyzeMovement returns null
NoMovement == [movementType |-> Null]

\* currentLocation.timestamp - previousLocation.timestamp, in ms
TimeDiff(previousLocation, currentLocation) ==
    IF IsNumber(previousLocation.timestamp) /\ IsNumber(currentLocation.timestamp)
    THEN Q(currentLocation.timestamp.n - previousLocation.timestamp.n, 1)
    ELSE NaNQ

\* analyzeMovement(previousLocation, currentLocation)
analyzeMovement(previousLocation, currentLocation) ==
    LET prev == previousLocation.coordinates
        curr == currentLocation.coordinates
    IN  IF ~TruthyNum(prev.latitude) \/ ~TruthyNum(curr.latitude) THEN NoMovement
        ELSE
        LET distance == calculateDistance(prev.latitude, prev.longitude,
                                          curr.latitude, curr.longitude)
            timeDiff == TimeDiff(previousLocation, currentLocation)
            \* speed * 3.6, in km/h: (distance / timeDiff) * 1000 * 3.6
            \* with distance = mm / 1000 this is mm * 18 / (5 * timeDiff)
            speedKmh == IF Above(timeDiff, 0)
                        THEN (IF distance.kind = "num"
                              THEN Q(distance.num * 18, timeDiff.num * 5)
                              ELSE NaNQ)
                        ELSE Q(0, 1)
        IN  [distance     |-> IF distance.kind = "num"
                              THEN Q(RoundDiv(distance.num, distance.den), 1) ELSE NaNQ,
             timeDifference |-> timeDiff,
             \* Math.round(speed * 3.6 * 100) / 100
             speed        |-> IF speedKmh.kind = "num"
                              THEN Q(RoundDiv(speedKmh.num * 100, speedKmh.den), 100)
                              ELSE NaNQ,
             direction    |-> calculateBearing(prev.latitude, prev.longitude,
                                               curr.latitude, curr.longitude),
             movementType |-> classifyMovement(distance, speedKmh),
             isSignificantMovement |-> isSignificantMovement(distance)]

\* a latitude and longitude within [-90, 90] and [-180, 180]
InRange(coordinates) ==
    /\ coordinates.latitude.kind = "num" /\ coordinates.longitude.kind = "num"
    /\ coordinates.latitude.n >= -90000000 /\ coordinates.latitude.n <= 90000000
    /\ coordinates.longitude.n >= -180000000 /\ coordinates.longitude.n <= 180000000

\* the coordinates the model draws from: the points of Places, a point
\* without longitude, a point on the equator and a location without
\* coordinates
CoordinateInputs ==
    { <<Num(Places[i][1]), Num(Places[i][2])>> : i \in 1..Len(Places) }
        \cup { <<Num(40000000), UndefV>>, <<Num(0), Num(10000000)>>, <<UndefV, UndefV>> }

PreviousTimestamps == {Num(1000), Num(2000)}

CurrentTimestamps == {UndefV, Num(1000), Num(2000), Num(3601000)}

MoveInit ==
    /\ track \in { <<Location(p[1], p[2], pt), Location(c[1], c[2], ct)>> :
                     p \in CoordinateInputs, c \in CoordinateInputs,
                     pt \in PreviousTimestamps, ct \in CurrentTimestamps }
    /\ movement = <<>>
    /\ summary = <<>>
    /\ ReqOff /\ ScoreOff /\ BlendOff /\ AnalysisOff /\ PrintOff

AnalyzeMovement ==
    /\ track # <<>>
    /\ movement = <<>>
    /\ movement' = <<analyzeMovement(track[1], track[2])>>
    /\ UNCHANGED <<track, summary, reqVars, scoreVars, blendVars, analysisVars, printVars>>

\* summary.movementDetected of liveTrack: locationAnalysis.movement?.distance > 10,
\* on the distance the result reports; undefined > 10 is false
movementDetected(result) ==
    result # NoMovement /\ Above(result.distance, 10)

\* liveTrack builds the summary of its response from the movement analysis
LiveTrackSummary ==
    /\ movement # <<>>
    /\ summary = <<>>
    /\ summary' = <<[movementDetected |-> movementDetected(movement[1])]>>
    /\ UNCHANGED <<track, movement, reqVars, scoreVars, blendVars, analysisVars, printVars>>

MoveNext == AnalyzeMovement \/ LiveTrackSummary

SpecMove == MoveInit /\ [][MoveNext]_vars

(***************************************************************************)
(* Fingerprint Generator (generateDeviceFingerprint and its helpers).      *)
(*                                                                         *)
(* A component is a JavaScript value that is a string, a number or         *)
(* undefined, in one record shape.  The digest is kept symbolic: the hash  *)
(* of a string is the record [sha256 |-> that string], so two hashes are   *)
(* equal exactly when their pre-images are (no collision of SHA-256 is     *)
(* modelled).                                                              *)
(***************************************************************************)
JsString(s) == [kind |-> "string", s |-> s, n |-> 0]
JsNumber(n) == [kind |-> "number", s |-> "", n |-> n]
JsUndefined == [kind |-> "undefined", s |-> "", n |-> 0]

\* truthiness: "", 0 and undefined are falsy
IsTruthy(v) ==
    \/ v.kind = "string" /\ v.s # ""
    \/ v.kind = "number" /\ v.n # 0

\* a || b
OrElse(a, b) == IF IsTruthy(a) THEN a ELSE b

\* the string Array.prototype.join uses for an element
JoinString(v) ==
    IF v.kind = "string" THEN v.s
    ELSE IF v.kind = "number" THEN ToString(v.n)
    ELSE ""

RECURSIVE JoinFrom(_, _, _)
\* the elements of list from index i on, joined with sep
JoinFrom(list, sep, i) ==
    IF i > Len(list) THEN ""
    ELSE IF i = Len(list) THEN JoinString(list[i])
    ELSE JoinString(list[i]) \o sep \o JoinFrom(list, sep, i + 1)

\* components.join(sep)
Join(list, sep) == JoinFrom(list, sep, 1)

\* the `components` array of generateDeviceFingerprint
FingerprintComponents(req) ==
    LET f == req.frontendData
        h == req.headers
        unknown == JsString("unknown")
    IN  << req.userAgent,
           OrElse(f.screenResolution, unknown),
           OrElse(f.timezone, unknown),
           OrElse(f.language, OrElse(h.acceptLanguage, unknown)),
           OrElse(f.colorDepth, unknown),
           OrElse(f.pixelRatio, unknown),
           OrElse(f.hardwareConcurrency, unknown),
           OrElse(f.deviceMemory, unknown),
           OrElse(h.acceptEncoding, unknown),
           OrElse(h.acceptLanguage, unknown) >>

\* c && c !== 'unknown'
Defined(c) == IsTruthy(c) /\ c # JsString("unknown")

\* calculateFingerprintConfidence with the count taken over all components
calculateFingerprintConfidence_CountAll(components) ==
    RoundDiv(Len(components) * 100, Len(components))

\* calculateFingerprintConfidence(components)
calculateFingerprintConfidence(components) ==
    LET definedComponents == Cardinality({ i \in 1..Len(components) : Defined(components[i]) })
    IN  RoundDiv(definedComponents * 100, Len(components))

RECURSIVE LengthSum(_, _)
\* ten times the score accumulated by the forEach of calculateUniquenessScore
\* from index i on, over string components (component.length * 0.1 each)
LengthSum(components, i) ==
    IF i > Len(components) THEN 0
    ELSE (IF Defined(components[i]) THEN Len(components[i].s) ELSE 0)
         + LengthSum(components, i + 1)

\* calculateUniquenessScore(components): the length of a number is
\* undefined, and undefined * 0.1 is NaN
calculateUniquenessScore(components) ==
    IF \E i \in 1..Len(components) :
          Defined(components[i]) /\ components[i].kind = "number"
    THEN NaNV
    ELSE Num(Min(100, RoundDiv(LengthSum(components, 1), 10)))

\* generateDeviceFingerprint(req, userAgent, frontendData)
generateDeviceFingerprint(req) ==
    LET components == FingerprintComponents(req)
    IN  [hash            |-> [sha256 |-> Join(components, "|")],
         confidence      |-> calculateFingerprintConfidence(components),
         uniquenessScore |-> calculateUniquenessScore(components)]

FrontendData(screenResolution, timezone, language, colorDepth, pixelRatio, cores, memory) ==
    [screenResolution |-> screenResolution, timezone |-> timezone,
     language |-> language, colorDepth |-> colorDepth, pixelRatio |-> pixelRatio,
     hardwareConcurrency |-> cores, deviceMemory |-> memory]

Headers(acceptEncoding, acceptLanguage) ==
    [acceptEncoding |-> acceptEncoding, acceptLanguage |-> acceptLanguage]

Request(userAgent, frontendData, headers) ==
    [userAgent |-> userAgent, frontendData |-> frontendData, headers |-> headers]

ScreenInputs == {JsUndefined, JsString("800x600"), JsString("800x600|UTC")}

ZoneInputs == {JsUndefined, JsString("UTC"), JsString("UTC|UTC")}

DepthInputs == {JsUndefined, JsNumber(24), JsString("24")}

LanguageInputs == {JsUndefined, JsString("en")}

\* the requests of the single-request runs
Requests ==
    { Request(ua, FrontendData(sr, tz, la, cd, pr, hc, dm), Headers(ae, al)) :
        ua \in {JsString(""), JsString("UA/1.0")},
        sr \in ScreenInputs, tz \in ZoneInputs, la \in LanguageInputs,
        cd \in DepthInputs, pr \in {JsUndefined, JsNumber(2)},
        hc \in {JsUndefined, JsNumber(8)}, dm \in {JsUndefined, JsString("8")},
        ae \in {JsUndefined, JsString("gzip")}, al \in LanguageInputs }

\* the requests of the two-request runs
PairRequests ==
    { Request(JsString("UA/1.0"),
              FrontendData(sr, tz, la, cd, JsUndefined, JsUndefined, JsUndefined),
              Headers(JsUndefined, al)) :
        sr \in ScreenInputs, tz \in ZoneInputs, la \in LanguageInputs,
        cd \in {JsUndefined, JsNumber(24)}, al \in LanguageInputs }

PrintInit ==
    /\ requests \in { <<a>> : a \in Requests }
                      \cup { <<a, b>> : a \in PairRequests, b \in PairRequests }
    /\ fingerprint = <<>>
    /\ ReqOff /\ ScoreOff /\ BlendOff /\ AnalysisOff /\ MoveOff

\* the next request is fingerprinted
GenerateDeviceFingerprint ==
    /\ Len(fingerprint) < Len(requests)
    /\ fingerprint' = Append(fingerprint,
                             generateDeviceFingerprint(requests[Len(fingerprint) + 1]))
    /\ UNCHANGED <<requests, reqVars, scoreVars, blendVars, analysisVars, moveVars>>

SpecPrint == PrintInit /\ [][GenerateDeviceFingerprint]_vars

(***************************************************************************)
(* Properties                                                              *)
(***************************************************************************)
\* an invocation of extractPreciseGeolocation has returned and the handler
\* has not started another one
Returned == pc \in {"performStealthLocationAnalysis", "save", "respond", "done"}

\* the record the last invocation returned
LastGeo == IF runs = 2 THEN ipGeolocation ELSE geolocation

\* provider p returned a record
Got(p) == results[p].status = "fulfilled" /\ results[p].value # NoResult

Take(s, n) == SubSeq(s, 1, IF Len(s) < n THEN Len(s) ELSE n)

PrivateOrLoopback(addr) ==
    addr \in {"127.0.0.1", "::1"} \/ Take(addr, 3) = "10." \/ Take(addr, 8) = "192.168."

FixedLocalRecord ==
    [country |-> "Local", region |-> "Local", city |-> "Local",
     latitude |-> NullV, longitude |-> NullV, timezone |-> "Local",
     isp |-> "Local Network", organization |-> "Local Network", source |-> "local"]

CanonicalUnknownRecord ==
    [country |-> "Unknown", region |-> "Unknown", city |-> "Unknown",
     latitude |-> NullV, longitude |-> NullV, timezone |-> "Unknown",
     isp |-> "Unknown", organization |-> "Unknown", source |-> "none"]

\* C1: for an address that is 127.0.0.1, ::1 or starts with "10." or
\* "192.168.", every invocation of extractPreciseGeolocation returns the fixed
\* Local record (null coordinates, source "local") and no provider client is
\* ever started.
C1_LocalBypassesProviders ==
    PrivateOrLoopback(ip) =>
        /\ \A p \in Providers : ncalls[p] = 0 /\ results[p].status = "idle"
        /\ runs >= 1 => geolocation = FixedLocalRecord
        /\ runs = 2 => ipGeolocation = FixedLocalRecord

C1_Witness ==
    /\ pc = "done" /\ endpoint = "stealthTrack" /\ runs = 2
    /\ ip = "10.0.0.7"
    /\ geolocation.source = "local" /\ ipGeolocation.source = "local"

\* p holds the highest score among the returned records and is the first
\* provider, in registration order, to hold it
FirstBest(p) ==
    /\ Got(p)
    /\ \A q \in Providers : Got(q) =>
          /\ scoreGeolocationResult(results[q].value)
                <= scoreGeolocationResult(results[p].value)
          /\ q < p => scoreGeolocationResult(results[q].value)
                        < scoreGeolocationResult(results[p].value)

\* C2 as stated: for a non-local address the record returned is the record
\* with the highest score among the providers that returned a record, the
\* first registered among equals.
C2_Original ==
    (Returned /\ ~PrivateOrLoopback(ip) /\ \E p \in Providers : Got(p)) =>
        \E p \in Providers : FirstBest(p) /\ LastGeo = results[p].value

\* C2 amended: the same, provided the highest score is at least 1; when every
\* returned record scores 0 the canonical Unknown record is returned.  The
\* completion order of the calls (order) plays no part.
C2_BestFirstRegistered ==
    (Returned /\ ~PrivateOrLoopback(ip)) =>
        /\ \A p \in Providers :
              (FirstBest(p) /\ scoreGeolocationResult(results[p].value) >= 1)
                 => LastGeo = results[p].value
        /\ (\A p \in Providers :
               Got(p) => scoreGeolocationResult(results[p].value) = 0)
              => LastGeo = CanonicalUnknownRecord

\* ipapi.co and ipinfo.io tie at the highest score, ipinfo.io completed
\* first, and the ipapi.co record is returned
C2_Witness ==
    /\ pc = "done" /\ ~PrivateOrLoopback(ip)
    /\ Got(Ipapi) /\ Got(Ipinfo) /\ FirstBest(Ipapi)
    /\ scoreGeolocationResult(results[Ipapi].value)
          = scoreGeolocationResult(results[Ipinfo].value)
    /\ order = <<GeoipLite, FastGeoip, Ipinfo, Ipapi>>
    /\ LastGeo.source = "ipapi.co"

\* C3: if all four provider clients yield "no result" for a non-local
\* address, extractPreciseGeolocation returns the canonical Unknown record
\* (null coordinates, source "none").
C3_AllNullGivesUnknown ==
    (Returned /\ ~PrivateOrLoopback(ip)
       /\ \A p \in Providers : results[p] = Fulfilled(NoResult))
        => LastGeo = CanonicalUnknownRecord

C3_Witness ==
    /\ pc = "done" /\ ip = "8.8.8.8"
    /\ \A p \in Providers : results[p] = Fulfilled(NoResult)
    /\ LastGeo.source = "none"

\* the score the claim describes: +3 when both coordinates are present
ClaimedScore(result) ==
    (IF Truthy(result.country) /\ result.country # "Unknown" THEN 1 ELSE 0)
  + (IF Truthy(result.region) /\ result.region # "Unknown" THEN 1 ELSE 0)
  + (IF Truthy(result.city) /\ result.city # "Unknown" THEN 1 ELSE 0)
  + (IF result.latitude.kind = "num" /\ result.longitude.kind = "num" THEN 3 ELSE 0)
  + (IF Truthy(result.timezone) /\ result.timezone # "Unknown" THEN 1 ELSE 0)
  + (IF Truthy(result.isp) /\ result.isp # "Unknown" THEN 1 ELSE 0)

\* C4: for every record, coordinates equal to 0 included, the score is +1 per
\* known country, region, city, timezone and ISP and +3 when both latitude
\* and longitude are present.
C4_ScoreAsClaimed ==
    score # <<>> => score[1] = ClaimedScore(rec)

\* C4, its consequence: the score lies in 0..7.
C4_ScoreAtMostSeven ==
    score # <<>> => score[1] \in 0..7

\* C5 as stated: no provider call ever settles as rejected, and whenever some
\* provider returned a record the record returned is one of the providers'
\* records, whatever subset of the other calls failed.
C5_Original ==
    /\ \A p \in Providers : results[p].status # "rejected"
    /\ (Returned /\ ~PrivateOrLoopback(ip) /\ \E p \in Providers : Got(p))
          => \E p \in Providers : Got(p) /\ LastGeo = results[p].value

\* C5 amended: the same, for the case that some returned record scores at
\* least 1.
C5_FailuresIsolated ==
    /\ \A p \in Providers : results[p].status # "rejected"
    /\ (Returned /\ ~PrivateOrLoopback(ip)
          /\ \E p \in Providers :
                Got(p) /\ scoreGeolocationResult(results[p].value) >= 1)
          => \E p \in Providers : Got(p) /\ LastGeo = results[p].value

\* three of the four calls failed and the record of the fourth is returned
C5_Witness ==
    /\ pc = "done" /\ ~PrivateOrLoopback(ip)
    /\ results[Ipapi] = Fulfilled(NoResult)
    /\ results[FastGeoip] = Fulfilled(NoResult)
    /\ results[GeoipLite] = Fulfilled(NoResult)
    /\ Got(Ipinfo)
    /\ LastGeo = results[Ipinfo].value

\* C6: every provider call has its final outcome once its timeout has
\* elapsed: no call is pending later than TimeoutMs after it was issued.
C6_EveryCallBounded ==
    elapsed > TimeoutMs => \A p \in Providers : results[p].status # "pending"

\* C7: while one request is handled each provider is called at most once.
C7_AtMostOneLookup ==
    \A p \in Providers : ncalls[p] <= 1

\* an estimate carries coordinates: both latitude and longitude are numbers
Carries(e) == e.location.latitude.kind = "num" /\ e.location.longitude.kind = "num"

\* both coordinates are non-zero numbers
CarriesUsable(e) ==
    TruthyNum(e.location.latitude) /\ TruthyNum(e.location.longitude)

Describes(e) == Truthy(e.location.city) \/ Truthy(e.location.region)

HasCoordinates(r) == r.latitude.kind # "undefined" /\ r.longitude.kind # "undefined"

AtMost(q, cap) == q.kind = "num" /\ q.num >= 0 /\ q.num <= cap * q.den

\* C8: for every list of estimates, the empty list included, the confidence
\* returned is a number >= 0 that is <= 90 when the result carries
\* coordinates, <= 75 when it carries descriptive fields only and <= 50 in
\* the "general area only" result.
C8_ConfidenceBounded ==
    stealth # Idle =>
        /\ AtMost(stealth.confidence, 90)
        /\ (~HasCoordinates(stealth) /\ stealth.region # "General area only")
              => AtMost(stealth.confidence, 75)
        /\ stealth.region = "General area only" => AtMost(stealth.confidence, 50)

RECURSIVE SumCarrying(_, _, _)
\* over the estimates of list that carry coordinates, from index i on: the
\* sum of confidence * 1, of confidence * latitude or of confidence *
\* longitude, as what is "one", "latitude" or "longitude"
SumCarrying(list, i, what) ==
    IF i > Len(list) THEN 0
    ELSE (IF CarriesUsable(list[i])
          THEN list[i].confidence *
                 (CASE what = "one" -> 1
                    [] what = "latitude" -> list[i].location.latitude.n
                    [] what = "longitude" -> list[i].location.longitude.n)
          ELSE 0)
         + SumCarrying(list, i + 1, what)

\* C9: when an estimate carries coordinates (non-zero ones, with a positive
\* weight), the coordinate returned is the weight-normalized mean of the
\* estimates that carry coordinates: sum(w * lat) / sum(w) and sum(w * lon) /
\* sum(w), both sums over the estimates that carry coordinates.
C9_WeightedMean ==
    (stealth # Idle /\ SumCarrying(ests, 1, "one") > 0) =>
        /\ stealth.latitude.kind = "num" /\ stealth.longitude.kind = "num"
        /\ stealth.latitude.num * SumCarrying(ests, 1, "one")
              = SumCarrying(ests, 1, "latitude") * stealth.latitude.den
        /\ stealth.longitude.num * SumCarrying(ests, 1, "one")
              = SumCarrying(ests, 1, "longitude") * stealth.longitude.den

\* C10: when no estimate carries coordinates and some estimate has a
\* descriptive location, the result is the descriptive fields of a
\* highest-confidence estimate with the confidence capped at 75, and not the
\* "general area only" result.
C10_DescriptiveFallback ==
    (/\ stealth # Idle
     /\ \A i \in 1..Len(ests) : ~Carries(ests[i])
     /\ \E i \in 1..Len(ests) : Describes(ests[i])) =>
        /\ stealth.source = "Best available estimation"
        /\ \E i \in 1..Len(ests) :
              /\ \A j \in 1..Len(ests) : ests[j].confidence <= ests[i].confidence
              /\ stealth.city = ests[i].location.city
        /\ AtMost(stealth.confidence, 75)

\* the analysis has been computed
Analysed == analysis # <<>>

\* the band the thresholds 80 / 60 / 40 / 20 assign to a confidence
BandOf(c) ==
    IF c.kind # "num" THEN "Regional level only"
    ELSE IF c.num > 80 * c.den THEN "100m - 2km"
    ELSE IF c.num > 60 * c.den THEN "1km - 10km"
    ELSE IF c.num > 40 * c.den THEN "5km - 50km"
    ELSE IF c.num > 20 * c.den THEN "20km - 200km"
    ELSE "Regional level only"

DocumentedRange(algorithm) ==
    CASE algorithm = "IP Geolocation"         -> 60..85
      [] algorithm = "Network Infrastructure" -> 30..50
      [] algorithm = "Timezone Analysis"      -> 40..65
      [] algorithm = "Connection Analysis"    -> 20..35
      [] algorithm = "Device Characteristics" -> 15..30

\* C12: the confidence of every estimate of an analysis lies in the
\* documented range of its algorithm.
C12_ConfidenceInRange ==
    Analysed =>
        \A i \in 1..Len(analysis[1].locationEstimations) :
            LET e == analysis[1].locationEstimations[i]
            IN  e.confidence \in DocumentedRange(e.algorithm)

\* an analysis in which the timezone estimate sits at its cap, the IP
\* estimate is the city-only one and the connection estimate got its bonus
C12_Witness ==
    /\ Analysed
    /\ analysis[1].locationEstimations[1].confidence = 70
    /\ analysis[1].locationEstimations[4].confidence = 65
    /\ analysis[1].locationEstimations[5].confidence = 30

\* analyzeMovement has returned a result (not null)
Moved == movement # <<>> /\ movement[1] # NoMovement

\* both locations are points of Places within the coordinate ranges:
\* complete, valid coordinates
ValidPair ==
    /\ track # <<>>
    /\ \A k \in 1..2 : InRange(track[k].coordinates)
    /\ \A k \in 1..2 : \E i \in 1..Len(Places) :
          /\ track[k].coordinates.latitude = Num(Places[i][1])
          /\ track[k].coordinates.longitude = Num(Places[i][2])

\* C13: in a result of analyzeMovement distance, speed and direction are
\* numbers (no NaN), the distance between identical coordinates is 0, and
\* the speed is 0 whenever the time difference is not positive.
C13_MovementFinite ==
    Moved =>
        /\ movement[1].distance.kind = "num"
        /\ movement[1].speed.kind = "num"
        /\ movement[1].direction.kind = "num"
        /\ track[1].coordinates = track[2].coordinates => movement[1].distance = Q(0, 1)
        /\ ~Above(movement[1].timeDifference, 0) => movement[1].speed = Q(0, 100)

\* C14: for a pair of valid coordinates the reported direction is a number
\* d with 0 <= d < 360.
C14_BearingInRange ==
    (Moved /\ ValidPair) =>
        /\ movement[1].direction.kind = "num"
        /\ movement[1].direction.num >= 0
        /\ Below(movement[1].direction, 360)

\* the movement type the thresholds assign to a distance of d tenths of a
\* metre and a speed of s tenths of a km/h
TypeOf(d, s) ==
    IF d < 50 THEN "stationary"
    ELSE IF s < 50 THEN "walking"
    ELSE IF s < 250 THEN "cycling"
    ELSE IF s < 800 THEN "driving"
    ELSE "high-speed"

C16_Original ==
    Moved => (movement[1].isSignificantMovement <=> Above(movement[1].distance, 10))

\* C16: isSignificantMovement is true exactly when the haversine distance
\* before rounding exceeds 10 m; the reported distance is then at least 10,
\* and a reported distance above 10 comes with a true flag.
C16_SignificantIffUnrounded ==
    (Moved /\ ValidPair) =>
        LET mm == HaversineMm[PlaceOf(track[1].coordinates.latitude,
                                      track[1].coordinates.longitude)]
                             [PlaceOf(track[2].coordinates.latitude,
                                      track[2].coordinates.longitude)]
        IN  /\ movement[1].isSignificantMovement <=> (mm > 10000)
            /\ movement[1].isSignificantMovement => ~Below(movement[1].distance, 10)
            /\ Above(movement[1].distance, 10) => movement[1].isSignificantMovement

\* a pair 10.341 m apart: reported distance 10, movement significant
C16_Witness ==
    /\ Moved /\ ValidPair
    /\ movement[1].distance = Q(10, 1)
    /\ movement[1].isSignificantMovement

\* request i has been fingerprinted
Printed(i) == i <= Len(fingerprint)

\* C17: two fingerprinted requests with identical component lists have the
\* same hash, and two whose component lists differ (in one component or in
\* several) have different hashes, i.e. different pre-images.
C17_JoinInjective ==
    \A i \in 1..Len(fingerprint), j \in 1..Len(fingerprint) :
        (FingerprintComponents(requests[i]) = FingerprintComponents(requests[j]))
            <=> (fingerprint[i].hash = fingerprint[j].hash)

\* the number of components of request i that are present and not 'unknown'
PresentCount(i) ==
    LET c == FingerprintComponents(requests[i])
    IN  Cardinality({ k \in 1..10 : c[k] \notin {JsUndefined, JsString(""), JsNumber(0), JsString("unknown")} })

\* C18: the fingerprint confidence is round(100 * k / 10) for k the number
\* of present, non-'unknown' components: ten times k, between 0 and 100,
\* and 100 when k = 10.
C18_ConfidenceFromCount ==
    \A i \in 1..Len(fingerprint) :
        /\ fingerprint[i].confidence = 10 * PresentCount(i)
        /\ fingerprint[i].confidence \in 0..100
        /\ PresentCount(i) = 10 => fingerprint[i].confidence = 100

\* a fingerprinted request with all ten components present
C18_Witness ==
    /\ Printed(1)
    /\ PresentCount(1) = 10
    /\ fingerprint[1].confidence = 100

\* C19: uniquenessScore is a number between 0 and 100, also when some
\* components are numbers.
C19_UniquenessIsNumber ==
    \A i \in 1..Len(fingerprint) :
        /\ fingerprint[i].uniquenessScore.kind = "num"
        /\ fingerprint[i].uniquenessScore.n \in 0..100

\* C20: when the save throws, the handler of getUserInfo, liveTrack and
\* stealthTrack still sends the 200 success response with the collected
\* data and database.saved = false; no handler sends more than one
\* response, and a finished handler has sent exactly one.
C20_SaveFailureSwallowed ==
    /\ Len(responses) <= 1
    /\ pc = "done" =>
          /\ Len(responses) = 1
          /\ responses[1].status = 200 /\ responses[1].success
          /\ responses[1].data = geolocation
          /\ responses[1].database.saved <=> (savedRecord = SavedRecord)
    /\ (pc = "done" /\ savedRecord = NoSavedRecord) =>
          responses = <<[status |-> 200, success |-> TRUE, data |-> geolocation,
                         database |-> [saved |-> FALSE]]>>

\* a liveTrack request for a public address whose save threw and whose
\* response has been sent
C20_Witness ==
    /\ pc = "done" /\ endpoint = "liveTrack" /\ ip = "8.8.8.8"
    /\ savedRecord = NoSavedRecord
    /\ Len(responses) = 1
    /\ ~responses[1].database.saved

\* C21: a latitude or longitude outside [-90, 90] / [-180, 180] given to
\* analyzeMovement is rejected: no movement result is computed from it.
C21_OutOfRangeRejected ==
    (movement # <<>> /\ \E k \in 1..2 :
        /\ track[k].coordinates.latitude.kind = "num"
        /\ track[k].coordinates.longitude.kind = "num"
        /\ ~InRange(track[k].coordinates))
    => ~Moved

\* C29: in a liveTrack response whose movement is not null,
\* summary.movementDetected equals movement.isSignificantMovement.
C29_DetectedEqualsSignificant ==
    (summary # <<>> /\ Moved) =>
        (summary[1].movementDetected <=> movement[1].isSignificantMovement)

\* C30: for a previous and a current location whose coordinates are
\* numbers within the ranges, latitude 0 and longitude 0 included,
\* analyzeMovement returns a result and not null.
C30_InRangeGivesResult ==
    (movement # <<>> /\ \A k \in 1..2 : InRange(track[k].coordinates)) => Moved

\* C26: every record returned by extractPreciseGeolocation has a latitude
\* exactly when it has a longitude: both are numbers or neither is.
C26_CoordinatesTogether ==
    Returned => (LastGeo.latitude.kind = "num" <=> LastGeo.longitude.kind = "num")

\* C27 as stated: whenever at least one provider returned a record the
\* record returned is one of the providers' records, and the Unknown record
\* is returned only when every provider returned no result.
C27_Original ==
    (Returned /\ ~PrivateOrLoopback(ip)) =>
        /\ (\E p \in Providers : Got(p))
              => \E p \in Providers : Got(p) /\ LastGeo = results[p].value
        /\ LastGeo = CanonicalUnknownRecord => \A p \in Providers : ~Got(p)

\* C27 amended: whenever at least one provider returned a record that scores
\* at least 1, the record returned is one of the providers' records scoring
\* at least 1; the Unknown record is returned exactly when no provider
\* returned a record that scores at least 1.
C27_ProviderRecordOrUnknown ==
    (Returned /\ ~PrivateOrLoopback(ip)) =>
        LET Scoring(p) == Got(p) /\ scoreGeolocationResult(results[p].value) >= 1
        IN  /\ (\E p \in Providers : Scoring(p))
                  => \E p \in Providers : Scoring(p) /\ LastGeo = results[p].value
            /\ LastGeo = CanonicalUnknownRecord <=> \A p \in Providers : ~Scoring(p)

\* a provider returned a record, every returned record scores 0, and the
\* Unknown record is returned
C27_Witness ==
    /\ pc = "done" /\ ~PrivateOrLoopback(ip)
    /\ \E p \in Providers : Got(p)
    /\ \A p \in Providers : Got(p) => scoreGeolocationResult(results[p].value) = 0
    /\ LastGeo = CanonicalUnknownRecord

\* the request carries no client-declared metadata
EmptyFrontendData ==
    /\ signals # <<>>
    /\ signals[1].frontendData =
          [timezone |-> Undef, connection |-> <<>>, hardwareConcurrency |-> UndefV,
           deviceMemory |-> UndefV, languages |-> <<>>]

\* C22: with empty frontendData the Device Characteristics and the
\* Connection Analysis estimates each have a confidence of at most 8, and
\* the IP Geolocation estimate a confidence of at least 60.
C22_NearFloorWithoutMetadata ==
    (Analysed /\ EmptyFrontendData) =>
        /\ analysis[1].locationEstimations[3].confidence <= 8
        /\ analysis[1].locationEstimations[5].confidence <= 8
        /\ analysis[1].locationEstimations[1].confidence >= 60

\* C23: the IP Geolocation estimate has confidence 80 when the record has
\* both coordinates, 70 when it has no coordinates but a known city, and 60
\* with an empty location when it has neither coordinates nor a known city
\* (city absent or "Unknown").
C23_IPConfidenceLevels ==
    Analysed =>
        LET geo == signals[1].geo
            e   == analysis[1].locationEstimations[1]
            hasCoordinates == geo.latitude.kind = "num" /\ geo.longitude.kind = "num"
            knownCity      == Truthy(geo.city) /\ geo.city # "Unknown"
        IN  /\ hasCoordinates => e.confidence = 80
            /\ (~hasCoordinates /\ knownCity) => e.confidence = 70
            /\ (~hasCoordinates /\ ~knownCity) =>
                  /\ e.confidence = 60
                  /\ e.location = [latitude |-> UndefV, longitude |-> UndefV,
                                   city |-> Undef, region |-> Undef]

\* C24: when the ISP or organization name of the resolved geolocation
\* contains, whatever the case, an entry of the ISP table, the Network
\* Infrastructure estimate carries the mapped region and the entry's bonus;
\* when no entry matches it carries no region.
C24_NetworkRegionFromISP ==
    Analysed =>
        LET geo     == signals[1].geo
            e       == analysis[1].locationEstimations[2]
            byIsp   == analyzeISPInfrastructure(geo.isp)
            byOrg   == analyzeISPInfrastructure(geo.organization)
            matched == IF Truthy(byIsp.region) THEN byIsp ELSE byOrg
        IN  IF Truthy(matched.region)
            THEN /\ e.location.estimatedRegion = matched.region
                 /\ e.confidence = Min(30 + matched.confidence, 50)
            ELSE e.location.estimatedRegion = Undef

\* C25: for a timezone, when one of the declared languages is in the list
\* of the timezone's region prefix, the confidence of the Timezone estimate
\* is the confidence without the languages plus 10, capped at 65.
C25_LanguageAddsTen ==
    Analysed =>
        LET f  == signals[1].frontendData
            e  == analysis[1].locationEstimations[4]
            tl == mapTimezoneToCoordinates(f.timezone)
            uncapped == 40 + (IF tl.confidence # 0 THEN tl.confidence ELSE 20)
            listed == \E i \in 1..Len(correlations) :
                         /\ StartsWith(f.timezone, correlations[i].tzRegion)
                         /\ \E n \in 1..Len(f.languages) :
                               f.languages[n] \in correlations[i].langs
        IN  (Truthy(f.timezone) /\ listed) => e.confidence = Min(uncapped + 10, 65)

====
